---- MODULE Spec2Model ----
(***************************************************************************)
(* Model of the FoxESS -> PVOutput integration                             *)
(* (custom_components/pvoutput_foxess): the Modbus client with its lock,   *)
(* call-convention detection, connection-state machine and invalid         *)
(* register ranges (modbus_client.py), and the coordinator's poll cycle    *)
(* (sensor.py).                                                            *)
(***************************************************************************)
EXTENDS Integers, Sequences, FiniteSets, TLC

(***************************************************************************)
(* Bounds of the model                                                     *)
(***************************************************************************)
\* register addresses are 0..MaxAddr
MaxAddr == 3
\* the consecutive-failure counter is not driven beyond MaxFails
MaxFails == 6

\* _NUM_FAILED_POLLS_FOR_DISCONNECTION
NUM_FAILED_POLLS_FOR_DISCONNECTION == 5

Addrs == 0 .. MaxAddr

(***************************************************************************)
(* InvalidRegisterRanges: a list of Range(start, count)                    *)
(***************************************************************************)
RECURSIVE addFrom(_, _, _)
\* the for-loop of InvalidRegisterRanges.add from list position i on
addFrom(rs, register, i) ==
    IF i > Len(rs)
    THEN Append(rs, [start |-> register, count |-> 1])
    ELSE IF register >= rs[i].start /\ register < rs[i].start + rs[i].count
         THEN rs
         ELSE IF register = rs[i].start + rs[i].count
              THEN [rs EXCEPT ![i].count = @ + 1]
              ELSE addFrom(rs, register, i + 1)

\* mutant: a new register replaces the stored ranges
add_forgets(rs, register) ==
    IF \E i \in 1 .. Len(rs) :
          register >= rs[i].start /\ register <= rs[i].start + rs[i].count
    THEN addFrom(rs, register, 1)
    ELSE <<[start |-> register, count |-> 1]>>

\* mutant: extending a range adds two registers
add_overshoots(rs, register) ==
    LET r == addFrom(rs, register, 1)
    IN  IF Len(r) = Len(rs) /\ r # rs
        THEN [i \in 1 .. Len(r) |->
                 IF r[i] # rs[i] THEN [r[i] EXCEPT !.count = @ + 1] ELSE r[i]]
        ELSE r

\* mutant: a register at the end of a range starts a range of its own
add_noextend(rs, register) ==
    IF \E i \in 1 .. Len(rs) :
          register >= rs[i].start /\ register < rs[i].start + rs[i].count
    THEN rs
    ELSE Append(rs, [start |-> register, count |-> 1])

\* InvalidRegisterRanges.add
add(rs, register) == addFrom(rs, register, 1)

\* mutant: the first register of a range is not a member
contains_exclusive(rs, item) ==
    \E i \in 1 .. Len(rs) : item > rs[i].start /\ item < rs[i].start + rs[i].count

\* InvalidRegisterRanges.__contains__
contains(rs, item) ==
    \E i \in 1 .. Len(rs) : item >= rs[i].start /\ item < rs[i].start + rs[i].count

(***************************************************************************)
(* ConnectionState machine of ImprovedModbusClient                         *)
(***************************************************************************)
INITIAL == "INITIAL"
DISCONNECTED == "DISCONNECTED"
CONNECTED == "CONNECTED"

NoError == "None"

\* mutant: the threshold is compared with > instead of >=
update_connection_state_gt(cs, success, error) ==
    IF success
    THEN [state |-> IF cs.state \in {INITIAL, DISCONNECTED} THEN CONNECTED ELSE cs.state,
          fails |-> 0,
          error |-> IF cs.state = DISCONNECTED THEN NoError ELSE cs.error]
    ELSE IF cs.fails + 1 > NUM_FAILED_POLLS_FOR_DISCONNECTION /\ cs.state # DISCONNECTED
         THEN [state |-> DISCONNECTED, fails |-> cs.fails + 1, error |-> error]
         ELSE [cs EXCEPT !.fails = @ + 1]

\* mutant: a success after a disconnection keeps the recorded error
update_connection_state_keeps(cs, success, error) ==
    IF success
    THEN [state |-> IF cs.state \in {INITIAL, DISCONNECTED} THEN CONNECTED ELSE cs.state,
          fails |-> 0,
          error |-> cs.error]
    ELSE IF cs.fails + 1 >= NUM_FAILED_POLLS_FOR_DISCONNECTION /\ cs.state # DISCONNECTED
         THEN [state |-> DISCONNECTED, fails |-> cs.fails + 1, error |-> error]
         ELSE [cs EXCEPT !.fails = @ + 1]

\* ImprovedModbusClient._update_connection_state; cs is the record of
\* _connection_state, _num_failed_poll_attempts, _current_connection_error
update_connection_state(cs, success, error) ==
    IF success
    THEN [state |-> IF cs.state \in {INITIAL, DISCONNECTED} THEN CONNECTED ELSE cs.state,
          fails |-> 0,
          error |-> IF cs.state = DISCONNECTED THEN NoError ELSE cs.error]
    ELSE IF cs.fails + 1 >= NUM_FAILED_POLLS_FOR_DISCONNECTION /\ cs.state # DISCONNECTED
         THEN [state |-> DISCONNECTED, fails |-> cs.fails + 1, error |-> error]
         ELSE [cs EXCEPT !.fails = @ + 1]

\* mutant: only Connected counts as connected
is_connected_strict(cs) == cs.state = CONNECTED

\* ImprovedModbusClient.is_connected
is_connected(cs) == cs.state = INITIAL \/ cs.state = CONNECTED

(***************************************************************************)
(* Call conventions.  The five call shapes of read_holding_registers:      *)
(*   1  keyword device_id, count passed as keyword                         *)
(*   2  keyword slave          3  keyword unit                             *)
(*   4  positional device id   5  no device-id argument                    *)
(* A convention is the triple _use_positional (None/True/False),           *)
(* _slave_param_name, _use_keyword_count.                                  *)
(***************************************************************************)
Shapes == {1, 2, 3, 4, 5}

\* ImprovedModbusClient.__init__: nothing detected yet
UnsetConvention ==
    [use_positional |-> "None", slave_param_name |-> "None", use_keyword_count |-> FALSE]

\* the assignments _detect_parameter_style makes when the probe of shape k
\* returns a response that is not an error
ProbeConvention(k) ==
    CASE k = 1 -> [use_positional |-> "False", slave_param_name |-> "device_id",
                   use_keyword_count |-> TRUE]
      [] k = 2 -> [use_positional |-> "False", slave_param_name |-> "slave",
                   use_keyword_count |-> FALSE]
      [] k = 3 -> [use_positional |-> "False", slave_param_name |-> "unit",
                   use_keyword_count |-> FALSE]
      [] k = 4 -> [use_positional |-> "True", slave_param_name |-> "None",
                   use_keyword_count |-> FALSE]
      [] OTHER -> [use_positional |-> "None", slave_param_name |-> "None",
                   use_keyword_count |-> FALSE]

\* the shape a signature parameter name stands for
KeywordShape(name) ==
    CASE name = "device_id" -> 1 [] name = "slave" -> 2 [] name = "unit" -> 3 [] OTHER -> 0

\* the assignments made when inspect.signature names device_id, slave or unit
SignatureConvention(sig) ==
    [use_positional |-> "False", slave_param_name |-> sig,
     use_keyword_count |-> (sig = "device_id")]

\* mutant: the probe of keyword unit is left out
NextProbeShape_skips(k) == IF k = 2 THEN 4 ELSE k + 1

\* _detect_parameter_style: the try blocks follow each other in this order
NextProbeShape(k) == k + 1

\* mutant: the fallback leaves the convention undetected
DefaultConvention_unset ==
    [use_positional |-> "None", slave_param_name |-> "None", use_keyword_count |-> FALSE]

\* the fallback when every probe failed
DefaultConvention ==
    [use_positional |-> "False", slave_param_name |-> "device_id", use_keyword_count |-> TRUE]

\* read_holding_registers: the fallback to 'slave' when no name was detected
NamedConvention(c) ==
    IF c.use_positional = "False" /\ c.slave_param_name = "None"
    THEN [c EXCEPT !.slave_param_name = "slave"]
    ELSE c

\* read_holding_registers: the call shape used under convention c
\* (0: a keyword call that is none of the five shapes)
ReadShape(c) ==
    CASE c.use_positional = "True" -> 4
      [] c.use_positional = "None" -> 5
      [] OTHER ->
           LET n == NamedConvention(c).slave_param_name
           IN  IF c.use_keyword_count
               THEN (IF n = "device_id" THEN 1 ELSE 0)
               ELSE (IF n = "slave" THEN 2 ELSE IF n = "unit" THEN 3 ELSE 0)

\* read_holding_registers: "if self._use_positional is None"
NeedsDetection(c) == c.use_positional = "None"

(***************************************************************************)
(* The pymodbus library the client runs against: the first of device_id,   *)
(* slave, unit that its read_holding_registers signature names ("none" if  *)
(* it names none of them), and the call shapes it does not reject with a   *)
(* TypeError.                                                              *)
(***************************************************************************)
Libs ==
    {[sig |-> "none", accepts |-> A] :
        A \in {{}, {1}, {2}, {3}, {4}, {5}, {2, 4}, {3, 5}, Shapes}}
    \cup {[sig |-> "device_id", accepts |-> {1}],
          [sig |-> "slave", accepts |-> {2, 4}],
          [sig |-> "unit", accepts |-> {3, 4}]}

(***************************************************************************)
(* Register map (inverter profile) and the device's registers              *)
(***************************************************************************)
Profiles ==
    { << [key |-> "pv1_power", type |-> "sensor", addresses |-> <<0>>,
          signed |-> TRUE, hasScale |-> FALSE, scale |-> 1, sources |-> <<>>],
         [key |-> "load_power", type |-> "sensor", addresses |-> <<2, 3>>,
          signed |-> TRUE, hasScale |-> TRUE, scale |-> 10, sources |-> <<>>],
         [key |-> "pv_power_now", type |-> "lambda", addresses |-> <<>>,
          signed |-> FALSE, hasScale |-> FALSE, scale |-> 1,
          sources |-> <<"pv1_power", "load_power">>] >> }

\* a profile with one raw entry, for the specification of overlapping cycles
SmallProfiles ==
    { << [key |-> "pv1_power", type |-> "sensor", addresses |-> <<0>>,
          signed |-> TRUE, hasScale |-> FALSE, scale |-> 1, sources |-> <<>>],
         [key |-> "pv_power_now", type |-> "lambda", addresses |-> <<>>,
          signed |-> FALSE, hasScale |-> FALSE, scale |-> 1,
          sources |-> <<"pv1_power">>] >> }

\* a profile that holds the keys the upload requires, the derived entry
\* declared between the raw entries and before its source
SchedProfiles ==
    LET solar == [key |-> "solar_energy_today", type |-> "sensor", addresses |-> <<1>>,
                  signed |-> FALSE, hasScale |-> FALSE, scale |-> 1, sources |-> <<>>]
        grid  == [key |-> "grid_consumption_energy_today", type |-> "sensor",
                  addresses |-> <<3>>, signed |-> FALSE, hasScale |-> FALSE, scale |-> 1,
                  sources |-> <<>>]
        load  == [key |-> "load_power", type |-> "sensor", addresses |-> <<2>>,
                  signed |-> TRUE, hasScale |-> FALSE, scale |-> 1, sources |-> <<>>]
        pv1   == [key |-> "pv1_power", type |-> "sensor", addresses |-> <<0>>,
                  signed |-> TRUE, hasScale |-> FALSE, scale |-> 1, sources |-> <<>>]
        pv    == [key |-> "pv_power_now", type |-> "lambda", addresses |-> <<>>,
                  signed |-> FALSE, hasScale |-> FALSE, scale |-> 1,
                  sources |-> <<"pv1_power">>]
    IN  { <<solar, pv, grid, load, pv1>> }

\* one raw entry and two derived entries, one of which uses the other or
\* itself as a source
DerivedEntries ==
    { << [key |-> "pv1_power", type |-> "sensor", addresses |-> <<0>>,
          signed |-> TRUE, hasScale |-> FALSE, scale |-> 1, sources |-> <<>>],
         [key |-> "pv_power_now", type |-> "lambda", addresses |-> <<>>,
          signed |-> FALSE, hasScale |-> FALSE, scale |-> 1, sources |-> b],
         [key |-> "total_power", type |-> "lambda", addresses |-> <<>>,
          signed |-> FALSE, hasScale |-> FALSE, scale |-> 1, sources |-> c] >> :
      <<b, c>> \in { << <<"pv1_power">>, <<"pv_power_now", "pv1_power">> >>,
                    << <<"pv1_power", "total_power">>, <<"pv_power_now">> >>,
                    << <<"pv_power_now">>, <<"pv1_power">> >> } }

\* the profiles that declare these entries, in every order
DerivedProfiles ==
    { [i \in 1 .. 3 |-> e[f[i]]] :
        e \in DerivedEntries,
        f \in {g \in [1 .. 3 -> 1 .. 3] : \A i, j \in 1 .. 3 : g[i] = g[j] => i = j} }

\* the 16-bit words a device holds at each address
RegisterImage == [a \in Addrs |-> IF a % 2 = 0 THEN 65535 ELSE a]

\* profiles of one raw entry: one or two words, signed or not, scaled or not
DecodeProfiles ==
    { << [key |-> "load_power", type |-> "sensor", addresses |-> a,
          signed |-> g, hasScale |-> h, scale |-> IF h THEN 10 ELSE 1,
          sources |-> <<>>] >> :
      a \in {<<0>>, <<0, 1>>}, g \in BOOLEAN, h \in BOOLEAN }

\* the words at the limits of the signed ranges
EdgeWords == {0, 1, 32767, 32768, 65535}

\* devices that hold these words at the addresses 0 and 1
RegisterImages ==
    { [a \in Addrs |-> IF a = 0 THEN hi ELSE IF a = 1 THEN lo ELSE 0] :
        hi \in EdgeWords, lo \in EdgeWords }

\* mutant: the scale is applied before the sign
Decode_scale_first(register, registers) ==
    LET count == Len(register.addresses)
        scaled == IF register.hasScale THEN registers[1] * register.scale
                  ELSE registers[1]
        negative == register.signed /\ (scaled \div 32768) % 2 = 1
        high == IF negative THEN scaled - 65536 ELSE scaled
    IN  IF count > 1 THEN high * 65536 + registers[2] ELSE high

\* _read_modbus_data: value of a raw entry from the words read.  The value
\* (registers[0] << 16) + registers[1] and the subtraction of 1 << bit_length
\* are computed on the high word, so that no intermediate result leaves the
\* 32-bit range of the model checker: bit (bit_length - 1) of the value is
\* bit 15 of the first word, and value - 2^(16*count) is the value with the
\* first word lowered by 65536
Decode(register, registers) ==
    LET count == Len(register.addresses)
        negative == register.signed /\ (registers[1] \div 32768) % 2 = 1
        high == IF negative THEN registers[1] - 65536 ELSE registers[1]
        value == IF count > 1 THEN high * 65536 + registers[2] ELSE high
    IN  IF register.hasScale THEN value * register.scale ELSE value

RECURSIVE SumSources(_, _, _)
SumSources(d, sources, i) ==
    IF i > Len(sources) THEN 0 ELSE d[sources[i]] + SumSources(d, sources, i + 1)

RECURSIVE Lambdas_partial(_, _, _)
\* mutant: a derived entry is the sum of those of its sources that are present
Lambdas_partial(p, d, i) ==
    IF i > Len(p) THEN d
    ELSE IF p[i].type = "lambda"
         THEN Lambdas_partial(p, (p[i].key :> SumSources(d,
                                     SelectSeq(p[i].sources, LAMBDA k : k \in DOMAIN d), 1))
                                 @@ d, i + 1)
         ELSE Lambdas_partial(p, d, i + 1)

RECURSIVE Lambdas(_, _, _)
\* _read_modbus_data: the "Calculate lambda values" loop from entry i on
Lambdas(p, d, i) ==
    IF i > Len(p) THEN d
    ELSE IF /\ p[i].type = "lambda"
            /\ \A j \in 1 .. Len(p[i].sources) : p[i].sources[j] \in DOMAIN d
         THEN Lambdas(p, (p[i].key :> SumSources(d, p[i].sources, 1)) @@ d, i + 1)
         ELSE Lambdas(p, d, i + 1)

\* mutant: the raw loop passes over the third entry of the map
NextSensor_skip(p, i) ==
    LET S == {k \in i .. Len(p) : p[k].type = "sensor" /\ k # 3}
    IN  IF S = {} THEN Len(p) + 1 ELSE CHOOSE k \in S : \A m \in S : k <= m

\* mutant: the raw loop does not advance past the entry it has read
NextSensor_again(p, i) ==
    LET S == {k \in (IF i > 1 THEN i - 1 ELSE i) .. Len(p) : p[k].type = "sensor"}
    IN  IF S = {} THEN Len(p) + 1 ELSE CHOOSE k \in S : \A m \in S : k <= m

RECURSIVE NextSensor(_, _)
\* _read_modbus_data: the raw loop passes over entries that are no sensor
NextSensor(p, i) ==
    IF i > Len(p) \/ p[i].type = "sensor" THEN i ELSE NextSensor(p, i + 1)

(***************************************************************************)
(* State                                                                   *)
(***************************************************************************)
VARIABLES
    lib,        \* the pymodbus library in use (fixed during a run)
    profile,    \* FoxESSDataCoordinator.profile
    client,     \* ImprovedModbusClient._client is not None
    connected,  \* the client's socket is open
    lock,       \* ImprovedModbusClient._lock: the task holding it, or "free"
    conv,       \* _use_positional, _slave_param_name, _use_keyword_count
    cs,         \* _connection_state, _num_failed_poll_attempts, _current_connection_error
    ranges,     \* _detected_invalid_ranges._ranges
    pc,         \* position of each task
    idx,        \* _read_modbus_data: index of the raw entry the loop is at
    data,       \* _read_modbus_data: the local dict data
    call,       \* the _async_pymodbus_call a task is making
    resp,       \* the response the executor job returned, held during the poll delay
    sample,     \* coordinator.data: the mapping the last finished cycle returned
    probed,     \* history: the shapes probed by a task's latest detection
    selected,   \* history: the shape the latest completed detection set, how, and
                \* the probes that detection made
    ev,         \* history: what the last step did
    inserted,   \* history: the registers passed to InvalidRegisterRanges.add
    ascending,  \* history: no register was added below one added before it
    image,      \* the 16-bit word the device holds at each address
    setup,      \* async_setup_entry of the sensor platform: "new", "ready", "failed"
    refresh,    \* the caller awaiting the running refresh: "none", "first", "wall"
    tick,       \* _wall_clock_handle is a timer that has not fired yet
    clock,      \* datetime.now() when the schedule looks at it, the upload
                \* interval, and the time and delay of the timer that is set
    timers,     \* the timers of _schedule_wall_clock_refresh that the event
                \* loop holds: set, neither fired nor cancelled
    last_update_success,  \* DataUpdateCoordinator.last_update_success
    reads,      \* history: the outcome of each read request of a task's cycle
    report,     \* history: how the last refresh ended, and the reads of its cycle
    sock,       \* the socket of the client: TCP_NODELAY set, settle delays slept
    required,   \* async_setup_entry: the local set required_keys
    creds,      \* PVOutputUploader._api_key and _system_id are non-empty
    last_status_code,        \* PVOutputUploader.last_status_code
    last_success_timestamp,  \* PVOutputUploader.last_success_timestamp
    post,       \* the POST each invoker of async_upload_data has under way
    up          \* history: the invocation of async_upload_data that the last
                \* step made or ended

vars == <<lib, profile, client, connected, lock, conv, cs, ranges, pc, idx, data,
          call, resp, sample, probed, selected, ev, inserted, ascending,
          image, setup, refresh, tick, clock, timers, last_update_success, reads,
          report,
          sock, required, creds, last_status_code, last_success_timestamp, post, up>>

\* the state of the device and of the host side of the coordinator
hostVars ==
    <<image, setup, refresh, tick, clock, timers, last_update_success, reads, report>>

\* the state of the set-up and of the uploader
sessionVars == <<required, creds, last_status_code, last_success_timestamp, post>>

\* the registers a successful read of count words from address returns
ReadRegisters(address, count) ==
    [i \in 1 .. count |-> image[address + i - 1]]

\* tasks of the event loop: the refresh cycle, a second refresh overlapping
\* it, and the shutdown that closes the client
Readers == {"cycle", "cycle2"}
Tasks == Readers \cup {"closer"}

NoCall == [kind |-> "none", shape |-> 0]
\* read: how the read request of the raw loop that the last step ended went
\* ("ok", "fail", "skip", or "none" when the step ended no request); res: the
\* error of a failed request; addr: the address requested; was:
\* _connection_state before the step
NoEvent == [read |-> "none", res |-> "none", addr |-> -1, was |-> "none"]

NoReport == [result |-> "none", of |-> "none", reads |-> <<>>]

\* no socket: ModbusTcpClient.socket is None
NoSocket == [nodelay |-> FALSE, settled |-> 0]

\* the callers of async_upload_data: _async_update_data and the button
Invokers == {"cycle", "button"}
NoPost == [keys |-> {}, payload |-> <<>>]
\* by: the invoker; keys: the keys of the data it passed; posted: the POST
\* was made; result: "pending" while it runs, then how it ended
NoUpload == [by |-> "none", keys |-> {}, posted |-> FALSE, result |-> "none"]
\* a step that neither invokes async_upload_data nor ends its POST
NoInvocation == up' = NoUpload
Configured == [api |-> TRUE, sys |-> TRUE]

\* no timer is set
NoTime == [hour |-> -1, minute |-> -1]

\* mutant: the multiple of the interval is not stepped up
next_time_floor(minute, interval) ==
    LET next_minute == (minute \div interval) * interval
    IN  IF next_minute >= 60 THEN [hour |-> 1, minute |-> 0]
        ELSE [hour |-> 0, minute |-> next_minute]

\* _schedule_wall_clock_refresh: next_time for now.minute and the upload
\* interval, as the hour after the current one or the current one, and the
\* minute; its second is 0
next_time(minute, interval) ==
    LET next_minute == (minute \div interval + 1) * interval
    IN  IF next_minute >= 60 THEN [hour |-> 1, minute |-> 0]
        ELSE [hour |-> 0, minute |-> next_minute]

\* _schedule_wall_clock_refresh: the timer is set for next_time, delay
\* seconds from now
set_timer(c) ==
    LET t == next_time(c.minute, c.interval)
    IN  [c EXCEPT !.next = t,
                  !.delay = (t.hour * 60 + t.minute - c.minute) * 60 - c.second]

\* the timer fires at the time it was set for
timer_fires(c) ==
    [c EXCEPT !.minute = c.next.minute, !.second = 0, !.next = NoTime, !.delay = 0]

\* the state after ImprovedModbusClient.__init__ and
\* FoxESSDataCoordinator.__init__, for a library of L, a profile of P and
\* device registers of I; the sample, the set-up and the credentials are
\* left to the specification
InitBase(L, P, I) ==
    /\ lib \in L
    /\ profile \in P
    /\ client = FALSE
    /\ connected = FALSE
    /\ lock = "free"
    /\ conv = UnsetConvention
    /\ cs = [state |-> INITIAL, fails |-> 0, error |-> NoError]
    /\ ranges = <<>>
    /\ pc = [t \in Tasks |-> "idle"]
    /\ idx = [t \in Tasks |-> 0]
    /\ data = [t \in Tasks |-> <<>>]
    /\ call = [t \in Tasks |-> NoCall]
    /\ resp = [t \in Tasks |-> "none"]
    /\ probed = [t \in Tasks |-> <<>>]
    /\ selected = [shape |-> 0, how |-> "none", probes |-> <<>>]
    /\ ev = NoEvent
    /\ inserted = {}
    /\ ascending = TRUE
    /\ image \in I
    /\ refresh = "none"
    /\ last_update_success = TRUE
    /\ reads = [t \in Tasks |-> <<>>]
    /\ report = NoReport
    /\ sock = NoSocket
    /\ required = {}
    /\ last_status_code = "None"
    /\ last_success_timestamp = "None"
    /\ post = [i \in Invokers |-> NoPost]
    /\ up = NoUpload

\* before async_setup_entry, with the API key and the system id configured
InitAll(L, P, I) ==
    /\ InitBase(L, P, I)
    /\ sample = <<>>
    /\ setup = "new"
    /\ tick = FALSE
    /\ timers = 0
    /\ clock = [minute |-> 0, second |-> 0, interval |-> 60, next |-> NoTime, delay |-> 0]
    /\ creds = Configured

InitWith(L, P) == InitAll(L, P, {RegisterImage})

Init == InitWith(Libs, Profiles)

\* mutant: the lock is always granted
CanAcquire_always(l) == TRUE

\* asyncio.Lock: "async with self._lock" is entered when nobody holds it
CanAcquire(l) == l = "free"

\* an exchange is in flight from the moment its task has entered the lock
\* until _async_pymodbus_call returns or raises
InFlight(t) == pc[t] \in {"exec", "pace"}

(***************************************************************************)
(* The poll cycle: FoxESSDataCoordinator._read_modbus_data                 *)
(***************************************************************************)
\* mutant: a refresh starts from the sample of the refresh before
StartCycle_keeps(t) ==
    /\ pc[t] = "idle"
    /\ pc' = [pc EXCEPT ![t] = "loop"]
    /\ idx' = [idx EXCEPT ![t] = NextSensor(profile, 1)]
    /\ data' = [data EXCEPT ![t] = sample]
    /\ ev' = NoEvent
    /\ UNCHANGED <<lib, profile, client, connected, lock, conv, cs, ranges, call, resp,
                   sample, probed, selected, inserted, ascending>>

\* a refresh starts: data = {} and the raw loop begins
StartCycle(t) ==
    /\ pc[t] = "idle"
    /\ pc' = [pc EXCEPT ![t] = "loop"]
    /\ idx' = [idx EXCEPT ![t] = NextSensor(profile, 1)]
    /\ data' = [data EXCEPT ![t] = <<>>]
    /\ ev' = NoEvent
    /\ UNCHANGED <<lib, profile, client, connected, lock, conv, cs, ranges, call, resp,
                   sample, probed, selected, inserted, ascending>>

\* "if address in self._modbus_client._detected_invalid_ranges: continue"
SkipInvalid(t) ==
    /\ pc[t] = "loop"
    /\ idx[t] <= Len(profile)
    /\ contains(ranges, profile[idx[t]].addresses[1])
    /\ idx' = [idx EXCEPT ![t] = NextSensor(profile, idx[t] + 1)]
    /\ ev' = [NoEvent EXCEPT !.read = "skip",
                             !.addr = profile[idx[t]].addresses[1], !.was = cs.state]
    /\ UNCHANGED <<lib, profile, client, connected, lock, conv, cs, ranges, pc, data,
                   call, resp, sample, probed, selected, inserted, ascending>>

\* read_holding_registers up to its first _async_pymodbus_call: the client
\* is created, the convention is taken from the signature or the first
\* probe is prepared, or the read call itself is prepared
BeginRead(t) ==
    /\ pc[t] = "loop"
    /\ idx[t] <= Len(profile)
    /\ ~contains(ranges, profile[idx[t]].addresses[1])
    /\ client' = TRUE
    /\ pc' = [pc EXCEPT ![t] = "issue"]
    /\ IF NeedsDetection(conv)
       THEN IF lib.sig # "none"
            THEN /\ conv' = SignatureConvention(lib.sig)
                 /\ selected' = [shape |-> KeywordShape(lib.sig), how |-> "signature",
                                  probes |-> <<>>]
                 /\ call' = [call EXCEPT ![t] =
                               [kind |-> "read", shape |-> ReadShape(conv')]]
            ELSE /\ conv' = conv
                 /\ selected' = selected
                 /\ call' = [call EXCEPT ![t] = [kind |-> "probe", shape |-> 1]]
       ELSE /\ conv' = NamedConvention(conv)
            /\ selected' = selected
            /\ call' = [call EXCEPT ![t] = [kind |-> "read", shape |-> ReadShape(conv)]]
    /\ probed' = [probed EXCEPT ![t] = IF NeedsDetection(conv) THEN <<>> ELSE @]
    /\ ev' = NoEvent
    /\ UNCHANGED <<lib, profile, connected, lock, cs, ranges, idx, data, resp, sample,
                   inserted, ascending>>

\* _async_pymodbus_call: "async with self._lock" is entered and the job is
\* handed to the executor
Issue(t) ==
    /\ pc[t] = "issue"
    /\ CanAcquire(lock)
    /\ lock' = t
    /\ pc' = [pc EXCEPT ![t] = "exec"]
    /\ ev' = NoEvent
    /\ UNCHANGED <<lib, profile, client, connected, conv, cs, ranges, idx, data, call,
                   resp, sample, probed, selected, inserted, ascending>>

\* what the executor job _call can end with: res is the response ("ok",
\* "errResp") or the exception ("typeErr", "connExc"); conn is whether the
\* socket is open afterwards
Outcomes(t) ==
    IF ~client
    THEN {[res |-> "connExc", conn |-> connected]}
    ELSE IF call[t].kind = "close"
    THEN {[res |-> "ok", conn |-> FALSE]}
    ELSE (IF connected THEN {} ELSE {[res |-> "connExc", conn |-> FALSE]})
         \cup (IF call[t].shape \notin lib.accepts
               THEN {[res |-> "typeErr", conn |-> TRUE]}
               ELSE {[res |-> "ok", conn |-> TRUE],
                     [res |-> "errResp", conn |-> TRUE],
                     [res |-> "connExc", conn |-> FALSE]})

\* mutant: a failed read ends the raw loop
ReadFailed_aborts(t, error) ==
    /\ cs.fails < MaxFails
    /\ cs' = update_connection_state(cs, FALSE, error)
    /\ idx' = [idx EXCEPT ![t] = Len(profile) + 1]
    /\ pc' = [pc EXCEPT ![t] = "loop"]
    /\ call' = [call EXCEPT ![t] = NoCall]
    /\ UNCHANGED <<conv, selected, data, client>>

\* mutant: a negotiation that a connection error ends sets the default
ReadFailed_caches(t, error) ==
    /\ cs.fails < MaxFails
    /\ cs' = update_connection_state(cs, FALSE, error)
    /\ idx' = [idx EXCEPT ![t] = NextSensor(profile, idx[t] + 1)]
    /\ pc' = [pc EXCEPT ![t] = "loop"]
    /\ call' = [call EXCEPT ![t] = NoCall]
    /\ conv' = IF call[t].kind = "probe" THEN DefaultConvention ELSE conv
    /\ UNCHANGED <<selected, data, client>>

\* _read_modbus_data: an except clause records the failure and the loop goes on
ReadFailed(t, error) ==
    /\ cs.fails < MaxFails
    /\ cs' = update_connection_state(cs, FALSE, error)
    /\ idx' = [idx EXCEPT ![t] = NextSensor(profile, idx[t] + 1)]
    /\ pc' = [pc EXCEPT ![t] = "loop"]
    /\ call' = [call EXCEPT ![t] = NoCall]
    /\ UNCHANGED <<conv, selected, data, client>>

\* _detect_parameter_style: the probe of shape k did not succeed; the next
\* shape is probed, or after the last one the default is set and the read
\* call is prepared
ProbeFailed(t, k, log) ==
    /\ pc' = [pc EXCEPT ![t] = "issue"]
    /\ IF k < 5
       THEN /\ call' = [call EXCEPT ![t] = [kind |-> "probe", shape |-> NextProbeShape(k)]]
            /\ UNCHANGED <<conv, selected>>
       ELSE /\ conv' = DefaultConvention
            /\ selected' = [shape |-> 1, how |-> "default", probes |-> log]
            /\ call' = [call EXCEPT ![t] =
                          [kind |-> "read", shape |-> ReadShape(conv')]]
    /\ UNCHANGED <<cs, idx, data, client>>

\* the executor job runs: connect if needed, then the call.  An exception
\* leaves "async with" at once; a response is held for the poll delay
Exec(t) ==
    /\ pc[t] = "exec"
    /\ \E o \in Outcomes(t) :
          /\ connected' = o.conn
          /\ ev' = IF (o.res = "connExc" /\ call[t].kind # "close")
                       \/ (o.res = "typeErr" /\ call[t].kind = "read")
                    THEN [read |-> "fail", res |-> o.res,
                          addr |-> profile[idx[t]].addresses[1], was |-> cs.state]
                    ELSE NoEvent
          /\ probed' = [probed EXCEPT ![t] =
                          IF call[t].kind = "probe"
                          THEN Append(@, [shape |-> call[t].shape, res |-> o.res])
                          ELSE @]
          /\ IF o.res \in {"ok", "errResp"}
             THEN /\ resp' = [resp EXCEPT ![t] = o.res]
                  /\ pc' = [pc EXCEPT ![t] = "pace"]
                  /\ UNCHANGED <<lock, conv, cs, idx, data, call, selected, client>>
             ELSE /\ lock' = "free"
                  /\ resp' = resp
                  /\ IF call[t].kind = "close"
                     THEN /\ pc' = [pc EXCEPT ![t] = "closed"]
                          /\ call' = [call EXCEPT ![t] = NoCall]
                          /\ UNCHANGED <<conv, cs, idx, data, selected, client>>
                     ELSE IF call[t].kind = "probe" /\ o.res = "typeErr"
                     THEN ProbeFailed(t, call[t].shape,
                                      Append(probed[t], [shape |-> call[t].shape,
                                                         res |-> o.res]))
                     ELSE ReadFailed(t, o.res)
    /\ UNCHANGED <<lib, profile, ranges, sample, inserted, ascending>>

\* the poll delay is over: the lock is released and the caller goes on with
\* the response
PaceDone(t) ==
    /\ pc[t] = "pace"
    /\ lock' = "free"
    /\ resp' = [resp EXCEPT ![t] = "none"]
    /\ IF call[t].kind = "close"
       THEN /\ client' = FALSE
            /\ pc' = [pc EXCEPT ![t] = "closed"]
            /\ call' = [call EXCEPT ![t] = NoCall]
            /\ ev' = NoEvent
            /\ UNCHANGED <<conv, cs, idx, data, selected>>
       ELSE IF call[t].kind = "probe"
       THEN /\ ev' = NoEvent
            /\ IF resp[t] = "ok"
               THEN /\ conv' = ProbeConvention(call[t].shape)
                    /\ selected' = [shape |-> call[t].shape, how |-> "probe",
                                     probes |-> probed[t]]
                    /\ call' = [call EXCEPT ![t] =
                                  [kind |-> "read", shape |-> ReadShape(conv')]]
                    /\ pc' = [pc EXCEPT ![t] = "issue"]
                    /\ UNCHANGED <<cs, idx, data, client>>
               ELSE ProbeFailed(t, call[t].shape, probed[t])
       ELSE IF resp[t] = "ok"
       THEN LET register == profile[idx[t]]
                registers == ReadRegisters(register.addresses[1], Len(register.addresses))
            IN  /\ data' = [data EXCEPT ![t] =
                              (register.key :> Decode(register, registers)) @@ data[t]]
                /\ cs' = update_connection_state(cs, TRUE, NoError)
                /\ idx' = [idx EXCEPT ![t] = NextSensor(profile, idx[t] + 1)]
                /\ pc' = [pc EXCEPT ![t] = "loop"]
                /\ call' = [call EXCEPT ![t] = NoCall]
                /\ ev' = [NoEvent EXCEPT !.read = "ok",
                                         !.addr = register.addresses[1], !.was = cs.state]
                /\ UNCHANGED <<conv, selected, client>>
       ELSE /\ ReadFailed(t, "ModbusClientFailedError")
            /\ ev' = [NoEvent EXCEPT !.read = "fail", !.res = "ModbusClientFailedError",
                                     !.addr = profile[idx[t]].addresses[1],
                                     !.was = cs.state]
    /\ UNCHANGED <<lib, profile, connected, ranges, sample, probed, inserted, ascending>>

\* the raw loop is over: the lambda values are calculated and data returned
FinishCycle(t) ==
    /\ pc[t] = "loop"
    /\ idx[t] > Len(profile)
    /\ sample' = Lambdas(profile, data[t], 1)
    /\ data' = [data EXCEPT ![t] = <<>>]
    /\ pc' = [pc EXCEPT ![t] = "idle"]
    /\ idx' = [idx EXCEPT ![t] = 0]
    /\ ev' = NoEvent
    /\ UNCHANGED <<lib, profile, client, connected, lock, conv, cs, ranges, call, resp,
                   probed, selected, inserted, ascending>>

(***************************************************************************)
(* Shutdown: FoxESSDataCoordinator.async_shutdown -> ImprovedModbusClient.close *)
(***************************************************************************)
Close ==
    /\ pc["closer"] = "idle"
    /\ IF client /\ connected
       THEN /\ call' = [call EXCEPT !["closer"] = [kind |-> "close", shape |-> 0]]
            /\ pc' = [pc EXCEPT !["closer"] = "issue"]
       ELSE /\ call' = call
            /\ pc' = [pc EXCEPT !["closer"] = "closed"]
    /\ ev' = NoEvent
    /\ UNCHANGED <<lib, profile, client, connected, lock, conv, cs, ranges, idx, data,
                   resp, sample, probed, selected, inserted, ascending>>

\* the peer drops the TCP connection between two exchanges
ConnectionLost ==
    /\ connected
    /\ lock = "free"
    /\ connected' = FALSE
    /\ ev' = NoEvent
    /\ UNCHANGED <<lib, profile, client, lock, conv, cs, ranges, pc, idx, data, call,
                   resp, sample, probed, selected, inserted, ascending>>

\* a caller of InvalidRegisterRanges.add marks a register invalid
AddInvalid ==
    \E a \in Addrs :
        /\ ranges' = add(ranges, a)
        /\ inserted' = inserted \cup {a}
        /\ ascending' = (ascending /\ \A b \in inserted : b <= a)
        /\ ev' = NoEvent
        /\ UNCHANGED <<lib, profile, client, connected, lock, conv, cs, pc, idx, data,
                       call, resp, sample, probed, selected>>

(***************************************************************************)
(* The host side: set-up, the wall-clock schedule, the upload               *)
(***************************************************************************)
\* the keys PVOutputUploader.async_upload_data requires
required_keys ==
    {"solar_energy_today", "pv_power_now", "grid_consumption_energy_today", "load_power"}

\* the keys of the sensors that are sent to PVOutput
PVOUTPUT_SENSORS ==
    {"solar_energy_today", "pv_power_now", "grid_consumption_energy_today",
     "load_power", "invtemp", "rvolt", "grid_voltage_R", "rvolt_R", "rvolt_A"}

RECURSIVE ExpandPass(_, _, _)
\* async_setup_entry, "for register in profile": the sources of a derived
\* entry whose key is required are added, entry by entry from entry i on
ExpandPass(p, req, i) ==
    IF i > Len(p) THEN req
    ELSE ExpandPass(p,
                    IF p[i].key \in req /\ p[i].type = "lambda"
                    THEN req \cup {p[i].sources[j] : j \in 1 .. Len(p[i].sources)}
                    ELSE req,
                    i + 1)

RECURSIVE Expand(_, _, _)
\* async_setup_entry, "for _ in range(len(profile))": n passes
Expand(p, req, n) ==
    IF n = 0 THEN req ELSE Expand(p, ExpandPass(p, req, 1), n - 1)

\* mutant: a connect() settles again on a connection that is open
connect_resettles(was_connected, opened, s) ==
    IF opened THEN [nodelay |-> TRUE, settled |-> s.settled + 1] ELSE NoSocket

\* CustomModbusTcpClient.connect: the socket after the call, s being the
\* socket before it and opened what ModbusTcpClient.connect returned
connect(was_connected, opened, s) ==
    IF ~opened THEN NoSocket
    ELSE IF ~was_connected THEN [nodelay |-> TRUE, settled |-> 1]
    ELSE s

\* _async_pymodbus_call._call connects when the client is not connected; a
\* socket that was closed or lost is gone
TrackSocket ==
    sock' = IF ~connected' THEN NoSocket
            ELSE IF ~connected THEN connect(FALSE, TRUE, NoSocket)
            ELSE sock

\* a POST of invoker i is under way
Posting(i) == post[i].keys # {}

\* mutant: grid_voltage_R is looked up after rvolt_R
GridVoltage_swapped(d) ==
    IF "rvolt" \in DOMAIN d THEN <<d["rvolt"]>>
    ELSE IF "rvolt_R" \in DOMAIN d THEN <<d["rvolt_R"]>>
    ELSE IF "grid_voltage_R" \in DOMAIN d THEN <<d["grid_voltage_R"]>>
    ELSE IF "rvolt_A" \in DOMAIN d THEN <<d["rvolt_A"]>>
    ELSE <<>>

\* async_upload_data: the grid voltage is that of rvolt and, without it,
\* that of grid_voltage_R, of rvolt_R or of rvolt_A; <<>> stands for None
GridVoltage(d) ==
    IF "rvolt" \in DOMAIN d THEN <<d["rvolt"]>>
    ELSE IF "grid_voltage_R" \in DOMAIN d THEN <<d["grid_voltage_R"]>>
    ELSE IF "rvolt_R" \in DOMAIN d THEN <<d["rvolt_R"]>>
    ELSE IF "rvolt_A" \in DOMAIN d THEN <<d["rvolt_A"]>>
    ELSE <<>>

\* async_upload_data: the payload without its date and time.  The values
\* of the model are whole numbers, which round(x, 2) returns as they are
Payload(d) ==
    LET v14 == [f \in {"v1", "v2", "v3", "v4"} |->
                  CASE f = "v1" -> d["solar_energy_today"] * 1000
                    [] f = "v2" -> d["pv_power_now"] * 1000
                    [] f = "v3" -> d["grid_consumption_energy_today"] * 1000
                    [] f = "v4" -> d["load_power"] * 1000]
        v5  == IF "invtemp" \in DOMAIN d THEN "v5" :> d["invtemp"] ELSE <<>>
        v6  == IF GridVoltage(d) # <<>> THEN "v6" :> GridVoltage(d)[1] ELSE <<>>
    IN  v14 @@ v5 @@ v6

\* mutant: the POST is made without an API key
UploadDue_nokey(d) ==
    DOMAIN d # {} /\ required_keys \subseteq DOMAIN d /\ creds.sys

\* _async_update_data: "if data and self.pvoutput_uploader", and
\* async_upload_data up to its HTTP call: the data is not empty, it holds
\* every required key, and the API key and the system id are not empty
UploadDue(d) ==
    DOMAIN d # {} /\ required_keys \subseteq DOMAIN d /\ creds.api /\ creds.sys

\* what the POST can end with: a response of status 200 or another status,
\* aiohttp.ClientError or asyncio.TimeoutError, which async_upload_data
\* catches, or an exception it does not catch
UploadOutcomes == {"200", "non200", "clientErr", "otherExc"}

\* async_upload_data from the end of the POST of invoker i on: the status
\* of the response is stored, and the time when it is 200; an error of the
\* HTTP client or a timeout stores "Error"; another exception leaves
\* async_upload_data before anything is stored
UploadEnds(i, o) ==
    /\ last_status_code' = CASE o \in {"200", "non200"} -> o
                              [] o = "clientErr" -> "Error"
                              [] OTHER -> last_status_code
    /\ last_success_timestamp' = IF o = "200" THEN "set" ELSE last_success_timestamp
    /\ post' = [post EXCEPT ![i] = NoPost]
    /\ up' = [by |-> i, keys |-> post[i].keys, posted |-> TRUE, result |-> o]
    /\ UNCHANGED <<required, creds>>

\* history: the read request that the step of task t ended is recorded
Track(t) ==
    reads' = IF ev'.read = "none"
             THEN reads
             ELSE [reads EXCEPT ![t] =
                     (profile[idx[t]].key :> (IF ev'.read = "fail" THEN ev'.res
                                              ELSE ev'.read)) @@ reads[t]]

\* _schedule_wall_clock_refresh: the handle is cancelled, which takes its
\* timer from the n timers of the event loop when it is pending, and a
\* new timer is set
schedule_wall_clock_refresh(n, pending) ==
    (IF pending THEN n - 1 ELSE n) + 1

\* mutant: no timer is set after a refresh that failed
EndRefresh_stops(success) ==
    /\ last_update_success' = success
    /\ report' = [result |-> IF success THEN "ok" ELSE "failed", of |-> refresh,
                  reads |-> reads["cycle"]]
    /\ refresh' = "none"
    /\ setup' = IF refresh = "first" THEN (IF success THEN "ready" ELSE "failed")
                ELSE setup
    /\ tick' = success
    /\ timers' = IF success THEN schedule_wall_clock_refresh(timers, tick) ELSE timers
    /\ clock' = IF success THEN set_timer(clock) ELSE clock
    /\ UNCHANGED <<image, reads>>

\* DataUpdateCoordinator ends the refresh: _async_update_data returned
\* (success) or raised UpdateFailed.  The caller goes on:
\* async_config_entry_first_refresh raises when the first refresh failed and
\* calls _schedule_wall_clock_refresh when it succeeded; _wall_clock_refresh
\* calls _schedule_wall_clock_refresh after async_request_refresh
EndRefresh(success) ==
    /\ last_update_success' = success
    /\ report' = [result |-> IF success THEN "ok" ELSE "failed", of |-> refresh,
                  reads |-> reads["cycle"]]
    /\ refresh' = "none"
    /\ IF refresh = "first"
       THEN /\ setup' = IF success THEN "ready" ELSE "failed"
            /\ tick' = success
            /\ timers' = IF success THEN schedule_wall_clock_refresh(timers, tick)
                         ELSE timers
            /\ clock' = IF success THEN set_timer(clock) ELSE clock
       ELSE /\ setup' = setup
            /\ tick' = TRUE
            /\ timers' = schedule_wall_clock_refresh(timers, tick)
            /\ clock' = set_timer(clock)
    /\ UNCHANGED <<image, reads>>

\* async_setup_entry: the profile is loaded, the keys of the entities are
\* collected, the coordinator and the uploader are created and the first
\* refresh is started
SetupEntry ==
    /\ setup = "new"
    /\ refresh = "none"
    /\ refresh' = "first"
    /\ StartCycle("cycle")
    /\ reads' = [reads EXCEPT !["cycle"] = <<>>]
    /\ required' = Expand(profile, PVOUTPUT_SENSORS, Len(profile))
    /\ UNCHANGED <<image, setup, tick, clock, timers, last_update_success, report>>
    /\ UNCHANGED <<creds, last_status_code, last_success_timestamp, post>>
    /\ NoInvocation

\* mutant: the timer that fires sets the next timer before the refresh
TickFires_rearms ==
    /\ tick
    /\ tick' = TRUE
    /\ timers' = schedule_wall_clock_refresh(timers - 1, FALSE)
    /\ clock' = set_timer(timer_fires(clock))
    /\ refresh' = "wall"
    /\ StartCycle("cycle")
    /\ reads' = [reads EXCEPT !["cycle"] = <<>>]
    /\ UNCHANGED <<image, setup, last_update_success, report>>
    /\ UNCHANGED sessionVars
    /\ NoInvocation

\* the timer of _schedule_wall_clock_refresh fires: _wall_clock_refresh
\* requests a refresh and awaits it
TickFires ==
    /\ tick
    /\ tick' = FALSE
    /\ timers' = timers - 1
    /\ clock' = timer_fires(clock)
    /\ refresh' = "wall"
    /\ StartCycle("cycle")
    /\ reads' = [reads EXCEPT !["cycle"] = <<>>]
    /\ UNCHANGED <<image, setup, last_update_success, report>>
    /\ UNCHANGED sessionVars
    /\ NoInvocation

\* a step of the cycle or of the close
CycleStep(t) ==
    /\ BeginRead(t) \/ Issue(t) \/ Exec(t) \/ PaceDone(t)
    /\ Track(t)
    /\ UNCHANGED <<image, setup, refresh, tick, clock, timers, last_update_success,
                   report>>
    /\ UNCHANGED sessionVars
    /\ NoInvocation

\* _async_update_data returns the data without a POST: the data is empty,
\* or async_upload_data returned at once.  The refresh ends
ReturnData(t) ==
    /\ ~UploadDue(Lambdas(profile, data[t], 1))
    /\ FinishCycle(t)
    /\ EndRefresh(TRUE)
    /\ up' = IF DOMAIN Lambdas(profile, data[t], 1) = {} THEN NoUpload
             ELSE [by |-> "cycle", keys |-> DOMAIN Lambdas(profile, data[t], 1),
                   posted |-> FALSE, result |-> "none"]
    /\ UNCHANGED <<required, creds, last_status_code, last_success_timestamp, post>>

\* _async_update_data awaits async_upload_data, which posts the payload
BeginUpload(t) ==
    /\ pc[t] = "loop"
    /\ idx[t] > Len(profile)
    /\ UploadDue(Lambdas(profile, data[t], 1))
    /\ data' = [data EXCEPT ![t] = Lambdas(profile, data[t], 1)]
    /\ pc' = [pc EXCEPT ![t] = "post"]
    /\ ev' = NoEvent
    /\ UNCHANGED <<lib, profile, client, connected, lock, conv, cs, ranges, idx, call,
                   resp, sample, probed, selected, inserted, ascending>>
    /\ UNCHANGED hostVars
    /\ post' = [post EXCEPT !["cycle"] =
                  [keys |-> DOMAIN data'[t], payload |-> Payload(data'[t])]]
    /\ up' = [by |-> "cycle", keys |-> DOMAIN data'[t], posted |-> TRUE,
              result |-> "pending"]
    /\ UNCHANGED <<required, creds, last_status_code, last_success_timestamp>>

\* mutant: an error of the HTTP client ends the refresh as a failure
UploadDone_raises(t) ==
    /\ pc[t] = "post"
    /\ \E o \in UploadOutcomes :
          /\ sample' = IF o \in {"otherExc", "clientErr"} THEN sample ELSE data[t]
          /\ EndRefresh(o \notin {"otherExc", "clientErr"})
          /\ UploadEnds("cycle", o)
    /\ data' = [data EXCEPT ![t] = <<>>]
    /\ pc' = [pc EXCEPT ![t] = "idle"]
    /\ idx' = [idx EXCEPT ![t] = 0]
    /\ ev' = NoEvent
    /\ UNCHANGED <<lib, profile, client, connected, lock, conv, cs, ranges, call, resp,
                   probed, selected, inserted, ascending>>

\* the POST is over: async_upload_data returns and _async_update_data
\* returns the data, or the exception it did not catch becomes UpdateFailed
UploadDone(t) ==
    /\ pc[t] = "post"
    /\ \E o \in UploadOutcomes :
          /\ sample' = IF o = "otherExc" THEN sample ELSE data[t]
          /\ EndRefresh(o # "otherExc")
          /\ UploadEnds("cycle", o)
    /\ data' = [data EXCEPT ![t] = <<>>]
    /\ pc' = [pc EXCEPT ![t] = "idle"]
    /\ idx' = [idx EXCEPT ![t] = 0]
    /\ ev' = NoEvent
    /\ UNCHANGED <<lib, profile, client, connected, lock, conv, cs, ranges, call, resp,
                   probed, selected, inserted, ascending>>

\* async_shutdown of the coordinator that set-up created is called: the
\* client is closed, nothing else is touched
Shutdown ==
    /\ setup # "new" \/ refresh # "none"
    /\ Close
    /\ UNCHANGED hostVars
    /\ UNCHANGED sessionVars
    /\ NoInvocation

\* the connection drops while the schedule runs
Dropped == ConnectionLost /\ UNCHANGED hostVars /\ UNCHANGED sessionVars /\ NoInvocation

\* the button is pressed: async_press awaits async_upload_data(), which
\* takes coordinator.data and posts it or returns at once
Press ==
    /\ setup = "ready"
    /\ ~Posting("button")
    /\ IF UploadDue(sample)
       THEN /\ post' = [post EXCEPT !["button"] =
                          [keys |-> DOMAIN sample, payload |-> Payload(sample)]]
            /\ up' = [by |-> "button", keys |-> DOMAIN sample, posted |-> TRUE,
                      result |-> "pending"]
       ELSE /\ post' = post
            /\ up' = [by |-> "button", keys |-> DOMAIN sample, posted |-> FALSE,
                      result |-> "none"]
    /\ UNCHANGED <<required, creds, last_status_code, last_success_timestamp>>
    /\ UNCHANGED hostVars
    /\ UNCHANGED <<lib, profile, client, connected, lock, conv, cs, ranges, pc, idx,
                   data, call, resp, sample, probed, selected, ev, inserted, ascending>>

\* the POST of the button is over
PressDone ==
    /\ Posting("button")
    /\ \E o \in UploadOutcomes : UploadEnds("button", o)
    /\ UNCHANGED hostVars
    /\ UNCHANGED <<lib, profile, client, connected, lock, conv, cs, ranges, pc, idx,
                   data, call, resp, sample, probed, selected, ev, inserted, ascending>>

\* the integration as it runs: one refresh cycle at a time, and the shutdown.
\* Nothing in the integration calls InvalidRegisterRanges.add, so the ranges
\* stay empty and the skip of the raw loop is never taken
Next ==
    /\ \/ StartCycle("cycle")
       \/ BeginRead("cycle")
       \/ \E t \in {"cycle", "closer"} : Issue(t) \/ Exec(t) \/ PaceDone(t)
       \/ FinishCycle("cycle")
       \/ Close
       \/ ConnectionLost
    /\ UNCHANGED hostVars
    /\ UNCHANGED sessionVars
    /\ NoInvocation
    /\ TrackSocket

Spec == Init /\ [][Next]_vars

\* the integration with a caller that marks registers invalid, on a library
\* whose signature names slave
InitAdd == InitWith({[sig |-> "slave", accepts |-> {2, 4}]}, Profiles)

NextAdd ==
    /\ \/ StartCycle("cycle")
       \/ SkipInvalid("cycle")
       \/ BeginRead("cycle")
       \/ \E t \in {"cycle", "closer"} : Issue(t) \/ Exec(t) \/ PaceDone(t)
       \/ FinishCycle("cycle")
       \/ Close
       \/ ConnectionLost
       \/ AddInvalid
    /\ UNCHANGED hostVars
    /\ UNCHANGED sessionVars
    /\ NoInvocation
    /\ TrackSocket

SpecAdd == InitAdd /\ [][NextAdd]_vars

\* the client under two overlapping refresh cycles and the shutdown
InitConc ==
    InitWith({[sig |-> "none", accepts |-> {3}], [sig |-> "slave", accepts |-> {2, 4}]},
             SmallProfiles)

NextConc ==
    /\ \/ \E t \in Readers : StartCycle(t) \/ BeginRead(t) \/ FinishCycle(t)
       \/ \E t \in Tasks : Issue(t) \/ Exec(t) \/ PaceDone(t)
       \/ Close
       \/ ConnectionLost
    /\ UNCHANGED hostVars
    /\ UNCHANGED sessionVars
    /\ NoInvocation
    /\ TrackSocket

SpecConc == InitConc /\ [][NextConc]_vars

\* values that fit the 32-bit integers of the model checker: an unsigned
\* entry of two words has a first word below 32768, and a scaled entry of
\* two words has a first word of 0 or 65535
Representable(p, img) ==
    \A i \in 1 .. Len(p) :
        p[i].type = "sensor" /\ Len(p[i].addresses) = 2 =>
            /\ ~p[i].signed => img[p[i].addresses[1]] < 32768
            /\ p[i].hasScale => img[p[i].addresses[1]] \in {0, 65535}

\* the refresh cycle on profiles of one raw entry, over devices that hold
\* the words at the limits of the signed ranges
InitDecode ==
    /\ InitAll({[sig |-> "slave", accepts |-> {2, 4}]}, DecodeProfiles, RegisterImages)
    /\ Representable(profile, image)

SpecDecode == InitDecode /\ [][Next]_vars

\* the integration from set-up on: the first refresh, the wall-clock
\* schedule, the upload at the end of a cycle, and the shutdown
InitSched == InitWith({[sig |-> "slave", accepts |-> {2, 4}]}, SchedProfiles)

NextSched ==
    /\ \/ SetupEntry
       \/ TickFires
       \/ \E t \in {"cycle", "closer"} : CycleStep(t)
       \/ ReturnData("cycle")
       \/ BeginUpload("cycle")
       \/ UploadDone("cycle")
       \/ Shutdown
       \/ Dropped
    /\ TrackSocket

SpecSched == InitSched /\ [][NextSched]_vars

\* the same while the poller is not closed, with the timer firing, the
\* executor running its jobs and the POST ending (it has a timeout)
NextOpen ==
    /\ \/ SetupEntry
       \/ TickFires
       \/ CycleStep("cycle")
       \/ ReturnData("cycle")
       \/ BeginUpload("cycle")
       \/ UploadDone("cycle")
       \/ Dropped
    /\ TrackSocket

SpecOpen ==
    /\ InitSched
    /\ [][NextOpen]_vars
    /\ WF_vars(TickFires /\ TrackSocket)
    /\ WF_vars(CycleStep("cycle") /\ TrackSocket)
    /\ WF_vars(ReturnData("cycle") /\ TrackSocket)
    /\ WF_vars(BeginUpload("cycle") /\ TrackSocket)
    /\ WF_vars(UploadDone("cycle") /\ TrackSocket)

\* set-up and the wall-clock schedule on profiles with derived entries that
\* use derived entries
InitDerived == InitWith({[sig |-> "slave", accepts |-> {2, 4}]}, DerivedProfiles)

NextDerived ==
    /\ \/ SetupEntry
       \/ TickFires
       \/ CycleStep("cycle")
       \/ ReturnData("cycle")
       \/ Dropped
    /\ TrackSocket

SpecDerived == InitDerived /\ [][NextDerived]_vars

\* the value each key of the upload has in the samples below
UploadValue ==
    [k \in PVOUTPUT_SENSORS |->
        CASE k = "solar_energy_today" -> 12
          [] k = "pv_power_now" -> 3400
          [] k = "grid_consumption_energy_today" -> 7
          [] k = "load_power" -> 2100
          [] k = "invtemp" -> 41
          [] k = "rvolt" -> 231
          [] k = "grid_voltage_R" -> 232
          [] k = "rvolt_R" -> 233
          [] k = "rvolt_A" -> 234]

\* the samples of every set of keys that the upload looks at
UploadSamples == {[k \in K |-> UploadValue[k]] : K \in SUBSET PVOUTPUT_SENSORS}

\* the uploader invoked by the button, for every sample and every
\* configuration of the API key and the system id
InitUpload ==
    /\ InitBase({[sig |-> "slave", accepts |-> {2, 4}]}, SchedProfiles, {RegisterImage})
    /\ sample \in UploadSamples
    /\ setup = "ready"
    /\ tick = TRUE
    /\ timers = 1
    /\ clock = set_timer([minute |-> 0, second |-> 0, interval |-> 60, next |-> NoTime,
                          delay |-> 0])
    /\ creds \in [api : BOOLEAN, sys : BOOLEAN]

NextUpload ==
    /\ Press \/ PressDone
    /\ TrackSocket

SpecUpload == InitUpload /\ [][NextUpload]_vars

\* the minutes, seconds of the minute and upload intervals the schedule is
\* computed for
Minutes == 0 .. 59
Seconds == {0, 1, 30, 59}
Intervals == 1 .. 60

\* the schedule alone, for every current time and every upload interval:
\* the timer is set, it fires at its time, and it is set again
InitTick ==
    /\ InitBase({[sig |-> "slave", accepts |-> {2, 4}]}, SchedProfiles, {RegisterImage})
    /\ sample = <<>>
    /\ setup = "ready"
    /\ tick = FALSE
    /\ timers = 0
    /\ creds = Configured
    /\ clock \in [minute : Minutes, second : Seconds, interval : Intervals,
                   next : {NoTime}, delay : {0}]

\* _schedule_wall_clock_refresh runs
ScheduleTick ==
    /\ ~tick
    /\ tick' = TRUE
    /\ timers' = schedule_wall_clock_refresh(timers, tick)
    /\ clock' = set_timer(clock)
    /\ UNCHANGED <<image, setup, refresh, last_update_success, reads, report>>
    /\ UNCHANGED sessionVars
    /\ NoInvocation
    /\ UNCHANGED <<lib, profile, client, connected, lock, conv, cs, ranges, pc, idx,
                   data, call, resp, sample, probed, selected, ev, inserted, ascending>>

\* the timer fires: the time is the one it was set for
TickElapses ==
    /\ tick
    /\ tick' = FALSE
    /\ timers' = timers - 1
    /\ clock' = timer_fires(clock)
    /\ UNCHANGED <<image, setup, refresh, last_update_success, reads, report>>
    /\ UNCHANGED sessionVars
    /\ NoInvocation
    /\ UNCHANGED <<lib, profile, client, connected, lock, conv, cs, ranges, pc, idx,
                   data, call, resp, sample, probed, selected, ev, inserted, ascending>>

NextTick ==
    /\ ScheduleTick \/ TickElapses
    /\ TrackSocket

SpecTick == InitTick /\ [][NextTick]_vars

\* set-up and the wall-clock schedule on the profiles with derived entries,
\* with the timer firing and the executor running its jobs
SpecDerivedFair ==
    /\ SpecDerived
    /\ WF_vars(TickFires /\ TrackSocket)
    /\ WF_vars(CycleStep("cycle") /\ TrackSocket)
    /\ WF_vars(ReturnData("cycle") /\ TrackSocket)

(***************************************************************************)
(* Properties                                                              *)
(***************************************************************************)

\* C1: at most one protocol exchange with the device is in flight at any
\* time, and the task whose exchange is in flight is the one holding the
\* lock, so no exchange starts before the previous one has released it
C1_OneExchangeInFlight ==
    /\ Cardinality({t \in Tasks : InFlight(t)}) <= 1
    /\ \A t \in Tasks : InFlight(t) => lock = t

\* a probe of one cycle is in flight while the read of the overlapping cycle
\* and the close are waiting for the lock
C1_Witness ==
    /\ InFlight("cycle")
    /\ call["cycle"].kind = "probe"
    /\ pc["cycle2"] = "issue"
    /\ pc["closer"] = "issue"

\* C2: with 5 or more failures recorded since the last success the state is
\* Disconnected and an error is recorded, the error being that of the failure
\* that reached the threshold; a successful read leaves the state Connected
\* and the counter 0, and after a disconnection it clears the error
C2_DisconnectAndRecover ==
    /\ cs.fails >= NUM_FAILED_POLLS_FOR_DISCONNECTION
          => cs.state = DISCONNECTED /\ cs.error # NoError
    /\ ev.read = "fail" /\ cs.fails = NUM_FAILED_POLLS_FOR_DISCONNECTION
          => cs.error = ev.res
    /\ ev.read = "ok" => cs.state = CONNECTED /\ cs.fails = 0
    /\ ev.read = "ok" /\ ev.was = DISCONNECTED => cs.error = NoError

\* a read has just succeeded while the client was Disconnected
C2_Witness ==
    /\ ev.read = "ok"
    /\ ev.was = DISCONNECTED
    /\ cs.state = CONNECTED
    /\ cs.fails = 0

\* C3: once detection has selected a convention, that convention stays as it
\* is: the selection and the convention never change again and no probe is
\* made again
C3_ConventionFixed ==
    [][selected.shape # 0 => selected' = selected /\ conv' = conv /\ probed' = probed]_vars

\* the probes of a log were made in the order of the shapes, and all but the
\* last were rejected or answered with an error response
InProbeOrder(log) ==
    \A i \in 1 .. Len(log) :
        /\ log[i].shape = i
        /\ i < Len(log) => log[i].res \in {"typeErr", "errResp"}

C5_DefaultState ==
    selected.how = "default" =>
        /\ Len(selected.probes) = 5
        /\ \A i \in 1 .. 5 : selected.probes[i].res \in {"typeErr", "errResp"}
        /\ conv.use_positional = "False"
        /\ conv.slave_param_name = "device_id"
        /\ conv.use_keyword_count
        /\ \A t \in Tasks : call[t].kind # "probe"
        /\ \A t \in Tasks : call[t].kind = "read" => call[t].shape = 1

\* C5: when all five probes fail, detection ends with shape 1 (keyword
\* device_id, count as keyword); it is never run again, and later reads are
\* made under that convention
C5_DefaultAfterAllFail ==
    /\ []C5_DefaultState
    /\ [][selected.how = "default" =>
             selected' = selected /\ conv' = conv /\ probed' = probed]_vars

\* after the fallback, a read made in shape 1 was rejected by the library and
\* was counted as a failed read; the cycle goes on
C5_Witness ==
    /\ selected.how = "default"
    /\ ev.read = "fail"
    /\ ev.res = "typeErr"
    /\ pc["cycle"] = "loop"

\* the raw loop of task t is at an entry whose address was added to the
\* invalid ranges
AtInserted(t) ==
    /\ pc[t] = "loop"
    /\ idx[t] <= Len(profile)
    /\ profile[idx[t]].addresses[1] \in inserted

\* C6: a read requested for an address in the invalid ranges is skipped: the
\* step of the cycle leaves client, connection, lock, convention, probes,
\* pending call, values read so far, failure counter and connection state as
\* they are, and moves the loop past the entry
C6_SkipTouchesNothing ==
    [][AtInserted("cycle") /\ (pc'["cycle"] # pc["cycle"] \/ idx'["cycle"] # idx["cycle"])
          => /\ UNCHANGED <<client, connected, lock, conv, cs, call, resp, data, probed,
                           selected, sample>>
             /\ pc'["cycle"] = "loop"
             /\ idx'["cycle"] > idx["cycle"]
             /\ ev'.read = "skip"]_vars

\* the first entry has just been skipped on an open connection, with failed
\* reads counted before
C6_Witness ==
    /\ ev.read = "skip"
    /\ ev.addr = 0
    /\ data["cycle"] = <<>>
    /\ connected
    /\ cs.fails > 0

\* C7: after a read failed with ModbusClientFailedError the failing address
\* is in the invalid ranges
C7_FailedAddressInvalid ==
    ev.read = "fail" /\ ev.res = "ModbusClientFailedError" => contains(ranges, ev.addr)

\* no two stored ranges overlap or touch
Merged(rs) ==
    \A i, j \in 1 .. Len(rs) :
        i # j => \/ rs[i].start + rs[i].count < rs[j].start
                 \/ rs[j].start + rs[j].count < rs[i].start

\* every address of the adjacent blocks [a, a+count) and [a+count, a+2*count)
\* was added, and no other: one range from a of length 2*count is stored
BlocksAreOneRange(rs) ==
    \A a \in Addrs, count \in 1 .. MaxAddr :
        inserted = a .. (a + 2 * count - 1)
            => rs = <<[start |-> a, count |-> 2 * count]>>

\* C8 as stated: after any sequence of single-address inserts the stored
\* ranges are fully merged, and two adjacent blocks are one range
C8_AlwaysMerged == Merged(ranges) /\ BlocksAreOneRange(ranges)

\* C8, amended: the same after inserts made in ascending order of address
C8_MergedWhenAscending == ascending => Merged(ranges) /\ BlocksAreOneRange(ranges)

\* the addresses 0..3 of two adjacent blocks of two were added in ascending
\* order
C8_Witness ==
    /\ ascending
    /\ inserted = 0 .. 3
    /\ ranges = <<[start |-> 0, count |-> 4]>>

\* C9: no step of the session removes an address from the invalid ranges
C9_OnlyGrows ==
    [][\A a \in 0 .. MaxAddr + 1 : contains(ranges, a) => contains(ranges', a)]_vars

\* addresses were added, and a read failed and the client was closed since
C9_Witness ==
    /\ Len(ranges) >= 2
    /\ ev.read = "fail"
    /\ pc["closer"] = "closed"
    /\ cs.state = DISCONNECTED

\* C10: an address is reported as a member exactly when it was added
C10_MemberIffInserted ==
    \A x \in -1 .. MaxAddr + 2 : contains(ranges, x) <=> x \in inserted

\* ranges were appended and extended, and some address was never added
C10_Witness ==
    /\ Len(ranges) >= 2
    /\ \E i \in 1 .. Len(ranges) : ranges[i].count >= 2
    /\ inserted # Addrs

\* the keys of the entries of profile p, and the entry of key k
Keys(p) == {p[i].key : i \in 1 .. Len(p)}
EntryOf(p, k) == p[CHOOSE i \in 1 .. Len(p) : p[i].key = k]
SourcesOf(p, k) == {EntryOf(p, k).sources[j] : j \in 1 .. Len(EntryOf(p, k).sources)}

RECURSIVE RawOf(_, _, _)
\* the raw entries that the entry of key k stands on, through n levels
RawOf(p, k, n) ==
    IF EntryOf(p, k).type = "sensor" THEN {k}
    ELSE IF n = 0 THEN {}
    ELSE UNION {RawOf(p, s, n - 1) : s \in SourcesOf(p, k)}

RECURSIVE UsedBy(_, _, _)
\* the keys that the entries of K use, directly or through n levels
UsedBy(p, K, n) ==
    IF n = 0 THEN {}
    ELSE LET N == UNION {SourcesOf(p, k) : k \in K}
         IN  N \cup UsedBy(p, N, n - 1)

\* a derived entry of p uses itself, directly or through other entries
Cyclic(p) == \E k \in Keys(p) : k \in UsedBy(p, {k}, Len(p))

RECURSIVE SeqSum(_)
SeqSum(q) == IF q = <<>> THEN 0 ELSE Head(q) + SeqSum(Tail(q))

\* the key of entry e is in mapping d with the sum of the values of its sources
HoldsSum(e, d) ==
    /\ e.key \in DOMAIN d
    /\ \A j \in 1 .. Len(e.sources) : e.sources[j] \in DOMAIN d
    /\ d[e.key] = SeqSum([j \in 1 .. Len(e.sources) |-> d[e.sources[j]]])

\* C11: on an acyclic profile, whatever the order of declaration, a derived
\* entry whose raw sources were all read in the cycle is in the cycle's
\* sample with the sum of the values of its sources
C11_DerivedResolved ==
    ~Cyclic(profile) =>
        \A i \in 1 .. Len(profile) :
            /\ profile[i].type = "lambda"
            /\ RawOf(profile, profile[i].key, Len(profile)) \subseteq DOMAIN sample
            => HoldsSum(profile[i], sample)

\* C12: a derived entry whose sources are raw entries is in the sample with
\* the sum of their values when all of them are in it, and is not in the
\* sample when one of them is missing
C12_SumOfRawSources ==
    \A i \in 1 .. Len(profile) :
        /\ profile[i].type = "lambda"
        /\ \A k \in SourcesOf(profile, profile[i].key) : EntryOf(profile, k).type = "sensor"
        => IF SourcesOf(profile, profile[i].key) \subseteq DOMAIN sample
           THEN HoldsSum(profile[i], sample)
           ELSE profile[i].key \notin DOMAIN sample

\* a cycle read both raw entries and its sample holds their sum
C12_Witness ==
    /\ {"pv1_power", "load_power", "pv_power_now"} \subseteq DOMAIN sample
    /\ sample["pv_power_now"] = sample["pv1_power"] + sample["load_power"]
    /\ sample["load_power"] # 0

\* C14: on a profile whose derived entries form a cycle, set-up rejects the
\* profile: no refresh is started on it, no cycle runs and no sample is made
C14_CyclicRejected ==
    Cyclic(profile) =>
        /\ setup \in {"new", "failed"}
        /\ refresh = "none"
        /\ pc["cycle"] = "idle"
        /\ sample = <<>>

\* value v is the two's-complement reading of the words of entry r on the
\* device, times the scale: the reading has the words of the device as its
\* 16-bit digits, and of one word it is w below 32768 and w - 65536 from there
SignedReading(r, v) ==
    LET count == Len(r.addresses)
        d == IF r.hasScale THEN v \div r.scale ELSE v
        w == image[r.addresses[1]]
    IN  /\ r.hasScale => v = d * r.scale
        /\ count = 1 => d = IF w < 32768 THEN w ELSE w - 65536
        /\ count = 2 => /\ d % 65536 = image[r.addresses[2]]
                        /\ (d \div 65536) % 65536 = w
                        /\ (w < 32768 <=> d >= 0)

\* C13: the value decoded for a signed raw entry is the two's-complement
\* reading of its one or two words, and the scale multiplies that reading
C13_SignedDecode ==
    \A i \in 1 .. Len(profile) :
        profile[i].type = "sensor" /\ profile[i].signed =>
            /\ profile[i].key \in DOMAIN data["cycle"]
                  => SignedReading(profile[i], data["cycle"][profile[i].key])
            /\ profile[i].key \in DOMAIN sample
                  => SignedReading(profile[i], sample[profile[i].key])

\* a signed scaled entry of one word 32768 was decoded as -327680
C13_Witness ==
    /\ Len(profile[1].addresses) = 1
    /\ profile[1].signed
    /\ profile[1].hasScale
    /\ image[0] = 32768
    /\ "load_power" \in DOMAIN sample
    /\ sample["load_power"] = -327680

\* the keys of the raw entries of profile p
SensorKeys(p) == {p[i].key : i \in {j \in 1 .. Len(p) : p[j].type = "sensor"}}

\* C15: a failed read leaves the cycle in its raw loop; a refresh in which
\* reads failed has attempted every raw entry, has ended with a sample, the
\* sample holds exactly the raw entries that were read, and the derived
\* entries were computed from them
C15_FailureLosesOneKey ==
    /\ ev.read = "fail" => pc["cycle"] = "loop"
    /\ /\ report.result # "none"
       /\ \E k \in DOMAIN report.reads : report.reads[k] # "ok"
       => /\ report.result = "ok"
          /\ DOMAIN report.reads = SensorKeys(profile)
          /\ \A k \in SensorKeys(profile) : k \in DOMAIN sample <=> report.reads[k] = "ok"
          /\ C12_SumOfRawSources

\* the read of the third raw entry failed, the fourth and the derived entry
\* are in the sample
C15_Witness ==
    /\ report.result = "ok"
    /\ DOMAIN report.reads = SensorKeys(profile)
    /\ report.reads["load_power"] = "ModbusClientFailedError"
    /\ report.reads["pv1_power"] = "ok"
    /\ "load_power" \notin DOMAIN sample
    /\ {"pv1_power", "pv_power_now"} \subseteq DOMAIN sample

\* C16: a refresh in which every read failed to connect ends as a failed
\* update
C16_NoConnectionIsFailure ==
    /\ report.result # "none"
    /\ DOMAIN report.reads = SensorKeys(profile)
    /\ \A k \in DOMAIN report.reads : report.reads[k] = "connExc"
    => report.result = "failed" /\ ~last_update_success

C18_NoCycleAfterClose ==
    [][pc["closer"] = "closed" /\ pc["cycle"] = "idle" => pc'["cycle"] = "idle"]_vars

\* C19: while the POST of the upload is in flight the refresh has ended and
\* the next timer is set
C19_UploadIndependent ==
    pc["cycle"] = "post" => refresh = "none" /\ tick

\* C20: is_connected is true exactly in Initial and Connected and false
\* exactly in Disconnected, and with fewer than 5 failures counted it is true
C20_AvailableUnlessDisconnected ==
    /\ cs.state \in {INITIAL, CONNECTED, DISCONNECTED}
    /\ is_connected(cs) <=> cs.state \in {INITIAL, CONNECTED}
    /\ ~is_connected(cs) <=> cs.state = DISCONNECTED
    /\ cs.fails < NUM_FAILED_POLLS_FOR_DISCONNECTION => is_connected(cs)

\* four failures in a row from Initial: still Initial and connected
C20_Witness ==
    /\ cs.state = INITIAL
    /\ cs.fails = NUM_FAILED_POLLS_FOR_DISCONNECTION - 1
    /\ is_connected(cs)

\* C25: the lock is released by a task only when the poll delay of its
\* exchange is over
C25_DelayBeforeRelease ==
    [][\A t \in Tasks : lock = t /\ lock' # t => pc[t] = "pace"]_vars

\* C26: the connection state and the failure counter, and the invalid
\* ranges, change only in steps of a task that holds the lock when the change
\* has been made
C26_MutationUnderLock ==
    [][cs' # cs \/ ranges' # ranges => lock # "free" /\ lock' = lock]_vars

\* C27: of the reads started while no convention is set, only one runs the
\* probes: no two tasks have a probe prepared or in flight at the same time
C27_OneNegotiation ==
    Cardinality({t \in Readers : call[t].kind = "probe"}) <= 1

\* C21: the data of a running cycle holds a key only if the read of that
\* key succeeded in this cycle, and the sample of a refresh that ended holds
\* a raw key only if its read succeeded in that refresh and a derived key
\* only if its sources are in the sample and it is their sum; what the
\* sample before held plays no part
C21_FreshSample ==
    /\ pc["cycle"] \in {"loop", "issue", "exec", "pace"} =>
          \A k \in DOMAIN data["cycle"] :
              k \in DOMAIN reads["cycle"] /\ reads["cycle"][k] = "ok"
    /\ report.result = "ok" =>
          \A k \in DOMAIN sample :
              /\ k \in Keys(profile)
              /\ EntryOf(profile, k).type = "sensor" =>
                      k \in DOMAIN report.reads /\ report.reads[k] = "ok"
              /\ EntryOf(profile, k).type = "lambda" =>
                      /\ SourcesOf(profile, k) \subseteq DOMAIN sample
                      /\ sample[k] = SumSources(sample, EntryOf(profile, k).sources, 1)

\* the raw loop of a wall-clock refresh is over; the sample before holds
\* load_power and the derived pv_power_now, the reads of load_power and of
\* pv1_power failed in this refresh, and the data holds neither
C21_Witness ==
    /\ refresh = "wall"
    /\ pc["cycle"] = "loop"
    /\ idx["cycle"] > Len(profile)
    /\ {"load_power", "pv_power_now"} \subseteq DOMAIN sample
    /\ {"load_power", "pv1_power"} \subseteq DOMAIN reads["cycle"]
    /\ reads["cycle"]["load_power"] # "ok"
    /\ reads["cycle"]["pv1_power"] # "ok"
    /\ "solar_energy_today" \in DOMAIN data["cycle"]
    /\ DOMAIN Lambdas(profile, data["cycle"], 1) \cap {"load_power", "pv_power_now"} = {}

\* C28: while the raw loop of a cycle runs, the entries whose read is over
\* are exactly the raw entries declared before the one the loop is at, so
\* the reads are made one after the other in the order of the map, and the
\* data of the cycle holds no derived key until the loop is past the last
\* raw entry
C28_DeclarationOrder ==
    pc["cycle"] \in {"loop", "issue", "exec", "pace"} =>
        /\ DOMAIN reads["cycle"] =
              {profile[i].key : i \in {j \in 1 .. Len(profile) :
                                          j < idx["cycle"] /\ profile[j].type = "sensor"}}
        /\ DOMAIN data["cycle"] \subseteq DOMAIN reads["cycle"]
        /\ idx["cycle"] <= Len(profile) => profile[idx["cycle"]].type = "sensor"

\* the loop is at the last raw entry of a map of four, the three before it
\* are over, one of them with an error, and the derived entry declared
\* before it has no value yet
C28_Witness ==
    /\ pc["cycle"] = "exec"
    /\ Cardinality(DOMAIN reads["cycle"]) = 3
    /\ \E k \in DOMAIN reads["cycle"] : reads["cycle"][k] # "ok"
    /\ idx["cycle"] = NextSensor(profile, idx["cycle"])
    /\ idx["cycle"] = Len(profile)
    /\ \E i \in 1 .. idx["cycle"] - 1 : profile[i].type = "lambda"
    /\ DOMAIN data["cycle"] \subseteq SensorKeys(profile)

\* C22: a POST is made for an invocation only if the data it was given holds
\* the four required keys and the API key and the system id are not empty;
\* an invocation that makes no POST returns and leaves last_status_code,
\* last_success_timestamp and the POSTs under way as they were
C22_UploadSuppressed ==
    /\ [](up.posted => required_keys \subseteq up.keys /\ creds.api /\ creds.sys)
    /\ [](\A i \in Invokers : Posting(i) =>
              required_keys \subseteq post[i].keys /\ creds.api /\ creds.sys)
    /\ [][up'.by # "none" /\ ~up'.posted =>
              /\ ~(required_keys \subseteq up'.keys /\ creds.api /\ creds.sys)
              /\ UNCHANGED <<last_status_code, last_success_timestamp, post>>]_vars

\* the button was pressed on a sample with the four required keys while the
\* API key is empty, after nothing: no POST was made
C22_Witness ==
    /\ up.by = "button"
    /\ ~up.posted
    /\ required_keys \subseteq up.keys
    /\ ~creds.api
    /\ creds.sys
    /\ last_status_code = "None"
    /\ ~Posting("button")

\* C23: when the POST of a cycle ended with a status other than 200, with an
\* error of the HTTP client or with a timeout, the refresh has ended as a
\* success with the sample of the cycle, last_status_code is the status or
\* "Error", and last_success_timestamp is what it was
C23_UploadFailureContained ==
    /\ [](up.by = "cycle" /\ up.result \in {"non200", "clientErr"} =>
              /\ report.result = "ok"
              /\ last_update_success
              /\ refresh = "none"
              /\ DOMAIN sample = up.keys
              /\ last_status_code = IF up.result = "non200" THEN "non200" ELSE "Error")
    /\ [][up'.by = "cycle" /\ up'.result \in {"non200", "clientErr"} =>
              UNCHANGED last_success_timestamp]_vars

\* the POST of a wall-clock refresh ended with an error of the HTTP client
\* after an upload had succeeded
C23_Witness ==
    /\ up.by = "cycle"
    /\ up.result = "clientErr"
    /\ report.of = "wall"
    /\ report.result = "ok"
    /\ last_status_code = "Error"
    /\ last_success_timestamp = "set"

VoltageKeys == <<"rvolt", "grid_voltage_R", "rvolt_R", "rvolt_A">>

\* C24: the payload of a POST holds v6 exactly when one of rvolt,
\* grid_voltage_R, rvolt_R and rvolt_A is in the sample, and v6 is then the
\* value of the first of them, in this order, that is in the sample
C24_GridVoltagePriority ==
    Posting("button") =>
        LET present == {j \in 1 .. 4 : VoltageKeys[j] \in DOMAIN sample}
            first   == CHOOSE j \in present : \A m \in present : j <= m
        IN  /\ "v6" \in DOMAIN post["button"].payload <=> present # {}
            /\ present # {} => post["button"].payload["v6"] = sample[VoltageKeys[first]]

\* a POST is under way for a sample that holds grid_voltage_R, rvolt_R and
\* rvolt_A but not rvolt
C24_Witness ==
    /\ Posting("button")
    /\ DOMAIN sample \cap {"rvolt", "grid_voltage_R", "rvolt_R", "rvolt_A"}
           = {"grid_voltage_R", "rvolt_R", "rvolt_A"}
    /\ post["button"].payload["v6"] = 232

\* C29: an open connection has TCP_NODELAY set and has slept the settle
\* delay once, both within the executor job that opened it and so before the
\* exchange of that job; a connect() on it changes nothing
C29_SettleOncePerConnection ==
    IF connected
    THEN /\ sock = [nodelay |-> TRUE, settled |-> 1]
         /\ connect(TRUE, TRUE, sock) = sock
    ELSE sock = NoSocket

\* a connection opened after an earlier one was lost has an exchange in
\* flight
C29_Witness ==
    /\ connected
    /\ cs.fails > 0
    /\ pc["cycle"] = "pace"
    /\ sock.settled = 1

\* C30: every refresh that was started ends (unless the failure counter
\* has reached the bound MaxFails), and set-up has collected the keys of
\* the entities, whether the derived entries of the profile form a cycle or
\* not
C30_Terminates ==
    /\ (refresh # "none") ~> (refresh = "none" \/ cs.fails = MaxFails)
    /\ [](setup # "new" \/ refresh # "none" =>
              /\ PVOUTPUT_SENSORS \subseteq required
              /\ \A k \in required \cap Keys(profile) :
                     EntryOf(profile, k).type = "lambda" =>
                         SourcesOf(profile, k) \subseteq required)

\* a refresh over a profile whose derived entries form a cycle has ended
C30_Witness ==
    /\ Cyclic(profile)
    /\ report.result = "ok"
    /\ refresh = "none"
    /\ "total_power" \in required

\* C31: the state is Disconnected exactly when the failure counter is at
\* least 5, and exactly when an error is recorded; in Initial and Connected
\* the counter is below 5 and no error is recorded
C31_StateCounterErrorCoincide ==
    /\ cs.state = DISCONNECTED <=> cs.fails >= NUM_FAILED_POLLS_FOR_DISCONNECTION
    /\ cs.state = DISCONNECTED <=> cs.error # NoError
    /\ cs.state \in {INITIAL, CONNECTED, DISCONNECTED}

\* the poller was Disconnected with more than 5 failures and has just
\* recovered with a successful read
C31_Witness ==
    /\ ev.read = "ok"
    /\ ev.was = DISCONNECTED
    /\ cs.state = CONNECTED
    /\ cs.fails = 0
    /\ cs.error = NoError

\* a probe of the cycle ends with a connection error: the negotiation is
\* over with no convention set and the read has failed once
ProbeAborts ==
    (/\ pc["cycle"] = "exec"
     /\ call["cycle"].kind = "probe"
     /\ ev'.read = "fail"
     /\ ev'.res = "connExc")
    => (/\ NeedsDetection(conv)
        /\ conv' = conv
        /\ selected' = selected
        /\ cs'.fails = cs.fails + 1
        /\ pc'["cycle"] = "loop"
        /\ idx'["cycle"] > idx["cycle"]
        /\ data' = data
        /\ profile[idx["cycle"]].key \notin DOMAIN data'["cycle"]
        /\ lock' = "free")

\* a read that starts while no convention is set negotiates
NegotiatesAgain ==
    (/\ pc["cycle"] = "loop"
     /\ pc'["cycle"] = "issue"
     /\ NeedsDetection(conv))
    => (\/ call'["cycle"] = [kind |-> "probe", shape |-> 1]
        \/ selected'.how = "signature" /\ call'["cycle"].kind = "read")

\* C32: a probe that ends with a connection error ends the negotiation: no
\* convention is set, the read of the raw entry has failed and the failure
\* counter is one higher, the loop goes on without a value for the entry;
\* and a read that starts while no convention is set negotiates again
C32_ProbeConnectionError == [][ProbeAborts /\ NegotiatesAgain]_vars

\* the connection was lost while the third shape was probed, after two
\* shapes were rejected: no convention is set and one failure is counted
C32_Witness ==
    /\ ev.read = "fail"
    /\ ev.res = "connExc"
    /\ Len(probed["cycle"]) = 3
    /\ probed["cycle"][3] = [shape |-> 3, res |-> "connExc"]
    /\ probed["cycle"][1].res = "typeErr"
    /\ NeedsDetection(conv)
    /\ selected.how = "none"
    /\ cs.fails = 1
    /\ pc["cycle"] = "loop"

\* a timer is set only by the step that ends a refresh
SetOnlyAfterRefresh ==
    timers' > timers => refresh # "none" /\ refresh' = "none" /\ pc'["cycle"] = "idle"

\* C33: the event loop holds at most one timer of the schedule, the one of
\* the handle; no timer is pending while a refresh that the schedule awaits
\* runs, so no tick can start a cycle during another; and a timer is set
\* only by the step that ends such a refresh
C33_OneTimerPending ==
    /\ [](timers = IF tick THEN 1 ELSE 0)
    /\ [](refresh # "none" => timers = 0)
    /\ [](pc["cycle"] # "idle" => refresh # "none")
    /\ [][SetOnlyAfterRefresh]_vars

\* the timer was set again after the refresh that a tick started had failed
C33_Witness ==
    /\ timers = 1
    /\ report.of = "wall"
    /\ report.result = "failed"
    /\ refresh = "none"
    /\ pc["cycle"] = "idle"

\* C34: the timer is set for second 0 of the smallest minute above the
\* current one that is a multiple of the interval when that minute is below
\* 60, and for minute 0 of the next hour otherwise; its time is in the
\* future and at most the interval after the start of the current minute
C34_NextTick ==
    tick =>
        LET m  == clock.minute
            i  == clock.interval
            M  == {k \in m + 1 .. m + i : k % i = 0}
            k0 == CHOOSE k \in M : \A j \in M : k <= j
            at == clock.next.hour * 60 + clock.next.minute
        IN  /\ M # {}
            /\ clock.next = IF k0 < 60 THEN [hour |-> 0, minute |-> k0]
                            ELSE [hour |-> 1, minute |-> 0]
            /\ clock.delay > 0
            /\ clock.delay = (at - m) * 60 - clock.second
            /\ at - m <= i

\* at minute 57, second 59, with an interval of 7 minutes the timer is set
\* for the next hour, the multiple 63 being beyond the hour
C34_Witness ==
    /\ tick
    /\ clock.minute = 57
    /\ clock.second = 59
    /\ clock.interval = 7
    /\ clock.next = [hour |-> 1, minute |-> 0]
    /\ clock.delay = 121
====
